---- MODULE Spec2Model ----
(***************************************************************************)
(* ExifGPSReader.read_gps as a state machine over a byte stream.           *)
(*                                                                         *)
(* A stream is a sequence of bytes 0..255 with a cursor `pos`.  read(n)    *)
(* returns at most n bytes and advances the cursor by what it returned;    *)
(* seek(p) sets the cursor to p (also to a position behind it or past the  *)
(* end); tell() is the cursor.  Python ints are unbounded; every stream    *)
(* the model builds keeps the decoded integers below 2^31.  A Python float *)
(* num/den is held as the reduced fraction <<num, den>>.                   *)
(***************************************************************************)
EXTENDS Integers, Sequences, FiniteSets, TLC

VARIABLES
    stream,          \* the bytes behind self._stream
    pos,             \* the stream cursor, stream.tell()
    pc,              \* position in read_gps
    segment,         \* last marker / scan window read
    end_of_app1,
    exif_start,
    endian,          \* self._val: "none", "intel" or "motorola"
    found_gps,
    num_fields,
    i,               \* index of the directory walk loop
    datatype_length, \* local of read_gps, assigned in the walk only
    gps,             \* the record being built
    ifd_offsets,     \* absolute offset -> (tag, num_values, datatype)
    sorted_offsets,
    oi,              \* index of the deferred loop over sorted_offsets
    err,             \* exception that left read_gps, or "none"
    seeks,           \* history: every seek issued, <<cursor before, target>>
    requested,       \* history: cursor positions at which a read was issued
    resolved,        \* history: every gps[tag] = _get_value(...) evaluation
    run,             \* 1 for the first parse, 2 for the parse of the twin stream
    prevOutcome,     \* outcome of the first parse, kept for comparison
    decoded          \* what the two decoders returned for a byte string

io      == <<pos, seeks, requested>>
header  == <<segment, end_of_app1, exif_start, endian>>
walk    == <<found_gps, num_fields, i, datatype_length, gps, ifd_offsets,
             sorted_offsets, oi, resolved>>
harness == <<stream, run, prevOutcome, decoded>>
vars    == <<io, header, walk, harness, pc, err>>

----------------------------------------------------------------------------
(* Bounds of the input family *)

MaxEntries == 2     \* entries in the GPS directory: 0..MaxEntries
MaxPre     == 1     \* IFD0 entries in front of the GPS pointer entry

----------------------------------------------------------------------------
(* Class constants, lines 31-48 *)

SOI     == <<255, 216>>
APP0    == <<255, 224>>
APP1    == <<255, 225>>
GPS_TAG == <<136, 37>>

GPS_TAGS ==
    [t \in {1, 2, 3, 4, 5, 6, 7, 16, 17} |->
        CASE t = 1  -> "latitude_ref"
          [] t = 2  -> "latitude"
          [] t = 3  -> "longitude_ref"
          [] t = 4  -> "longitude"
          [] t = 5  -> "altitude_ref"
          [] t = 6  -> "altitude"
          [] t = 7  -> "timestamp"
          [] t = 16 -> "direction_ref"
          [] t = 17 -> "direction"]

ASCII_TAG    == 2
RATIONAL_TAG == 5
BYTE_TAG     == 1

DATATYPE_LENGTHS ==
    [d \in {0, 1, 2, 5} |->
        CASE d = 0 -> 0
          [] d = 1 -> 1
          [] d = 2 -> 1
          [] d = 5 -> 8]

INTEL_HEADER    == <<73, 73, 42, 0>>     \* 'II*\x00'
MOTOROLA_HEADER == <<77, 77, 0, 42>>     \* 'MM\x00*'

SOI_MISSING    == "ExifFormatException: Missing start-of-image tag!"
APP1_MISSING   == "ExifFormatException: APP1 segment is missing!"
ENDIAN_UNKNOWN == "ExifFormatException: Could not determine endianness."

----------------------------------------------------------------------------
(* The stream *)

Min(a, b) == IF a < b THEN a ELSE b
Max(a, b) == IF a > b THEN a ELSE b

\* stream.read(n) with the cursor at p: the bytes returned
Read(s, p, n) ==
    IF p >= Len(s) \/ n <= 0 THEN <<>> ELSE SubSeq(s, p + 1, Min(p + n, Len(s)))

\* the cursor after stream.read(n) at p
After(s, p, n) == p + Len(Read(s, p, n))

\* Python slice string[a:b] for 0 <= a <= b
Slice(string, a, b) ==
    IF a >= Len(string) THEN <<>> ELSE SubSeq(string, a + 1, Min(b, Len(string)))

\* Python slice string[0:-1]
DropLast(string) ==
    IF Len(string) <= 1 THEN <<>> ELSE SubSeq(string, 1, Len(string) - 1)

----------------------------------------------------------------------------
(* Value decoding, lines 215-274 *)

RECURSIVE _motorola_val(_)
_motorola_val(string) ==
    IF string = <<>> THEN 0
    ELSE _motorola_val(SubSeq(string, 1, Len(string) - 1)) * 256
            + string[Len(string)]

\* _intel_val accumulating its bytes most-significant first
IntelValMostSignificantFirst(string) == _motorola_val(string)

RECURSIVE _intel_val(_)
_intel_val(string) ==
    IF string = <<>> THEN 0
    ELSE string[1] + 256 * _intel_val(Tail(string))

\* self._val(string) with self._val bound to the function `e` names
_val(e, string) ==
    IF e = "intel" THEN _intel_val(string) ELSE _motorola_val(string)

RECURSIVE GCD(_, _)
GCD(a, b) == IF b = 0 THEN a ELSE GCD(b, a % b)

\* float(n) / float(d), d # 0
FloatDiv(n, d) == LET g == GCD(n, d) IN <<n \div g, d \div g>>

\* the decoded elements a record value is made of
IntElem(x)      == [t |-> "int",   n |-> <<x>>]
FloatElem(n, d) == [t |-> "float", n |-> FloatDiv(n, d)]
StrElem(string) == [t |-> "str",   n |-> string]

\* _rational_val raises ZeroDivisionError when the second half decodes to 0
RationalRaises(e, data) == _val(e, Slice(data, 4, 8)) = 0

_rational_val(e, data) ==
    FloatElem(_val(e, Slice(data, 0, 4)), _val(e, Slice(data, 4, 8)))

\* val(data[k]) of _get_value's loop, line 239
ElemVal(e, datatype, string) ==
    IF datatype = RATIONAL_TAG THEN _rational_val(e, string)
    ELSE IntElem(_val(e, string))

\* first loop index (1-based) at which line 239 raises, 0 when it does not
RECURSIVE FirstRaise(_, _, _, _, _)
FirstRaise(e, data, num_values, datatype, k) ==
    IF k > num_values THEN 0
    ELSE IF k > Len(data) THEN k
    ELSE IF datatype = RATIONAL_TAG /\ RationalRaises(e, data[k]) THEN k
    ELSE FirstRaise(e, data, num_values, datatype, k + 1)

\* Collapse without lines 243-244
CollapseNever(data, num_values) == [shape |-> "sequence", items |-> data]

\* what `return data` hands back when the value is not ASCII, lines 241-246
Collapse(data, num_values) ==
    IF num_values = 1 THEN [shape |-> "single", items |-> <<data[1]>>]
    ELSE [shape |-> "sequence", items |-> data]

\* _get_value(data, num_values, datatype): [raised, value]
_get_value(e, data, num_values, datatype) ==
    IF datatype = ASCII_TAG
    THEN [raised |-> "none",
          value  |-> [shape |-> "text",
                      items |-> <<StrElem(DropLast(data[1]))>>]]
    ELSE LET k == FirstRaise(e, data, num_values, datatype, 1) IN
         IF k # 0
         THEN [raised |-> IF k > Len(data) THEN "IndexError"
                          ELSE "ZeroDivisionError",
               value  |-> [shape |-> "none", items |-> <<>>]]
         ELSE [raised |-> "none",
               value  |-> Collapse(
                   [x \in 1..Len(data) |->
                       IF x <= num_values THEN ElemVal(e, datatype, data[x])
                       ELSE StrElem(data[x])],
                   num_values)]

----------------------------------------------------------------------------
(* The streams read_gps is run on.  A stream is laid out as a JPEG file:   *)
(* SOI, optional APP0, APP1 with its length, "Exif\0\0", the TIFF header,   *)
(* IFD0 with the GPS pointer entry, the GPS directory and the value area.  *)
(* Every part can be malformed, and the stream can be cut short.           *)

RECURSIVE EncBE(_, _)
EncBE(v, w) == IF w = 0 THEN <<>> ELSE Append(EncBE(v \div 256, w - 1), v % 256)

RECURSIVE EncLE(_, _)
EncLE(v, w) == IF w = 0 THEN <<>> ELSE <<v % 256>> \o EncLE(v \div 256, w - 1)

Enc(order, v, w) == IF order = "II" THEN EncLE(v, w) ELSE EncBE(v, w)

RECURSIVE Flatten(_)
Flatten(ss) == IF ss = <<>> THEN <<>> ELSE Head(ss) \o Flatten(Tail(ss))

EXIF_LITERAL == <<69, 120, 105, 102, 0, 0>>     \* "Exif\0\0"
GPS_POINTER_ID == 34853                          \* 0x8825

\* offsets relative to the TIFF header origin
IfdCount(c)    == c.pre + (IF c.hasGps THEN 1 ELSE 0)
GpsEntryRel(c) == 10 + 12 * c.pre
GpsDirRel(c)   == 10 + 12 * IfdCount(c) + 4
DataRel(c)     == GpsDirRel(c) + 2 + 12 * Len(c.entries) + 4
BodyLen(c)     == DataRel(c) + 26

SlotRel(c, at) ==
    CASE at = "s0"   -> DataRel(c)
      [] at = "s1"   -> DataRel(c) + 8
      [] at = "sA"   -> DataRel(c) + 16
      [] at = "sB"   -> DataRel(c) + 21
      [] at = "back" -> GpsDirRel(c)

EntryBytes(c, e) ==
    Enc(c.order, e.tag, 2) \o Enc(c.order, e.datatype, 2)
        \o Enc(c.order, e.count, 4)
        \o (IF e.at = "inline" THEN e.bytes ELSE Enc(c.order, SlotRel(c, e.at), 4))

OtherEntry(c) ==
    Enc(c.order, 274, 2) \o Enc(c.order, 3, 2) \o Enc(c.order, 1, 4)
        \o Enc(c.order, 1, 2) \o <<0, 0>>

PointerEntry(c) ==
    (IF c.tagEnc = "literal" THEN GPS_TAG ELSE Enc(c.order, GPS_POINTER_ID, 2))
        \o Enc(c.order, 4, 2) \o Enc(c.order, 1, 4)
        \o Enc(c.order, GpsDirRel(c), 4)

DataArea(c) ==
    Enc(c.order, 21, 4) \o Enc(c.order, 2, 4)          \* s0: 21/2
        \o Enc(c.order, 6, 4) \o Enc(c.order, 4, 4)    \* s1: 6/4
        \o <<84, 114, 117, 101, 0>>                    \* sA: "True\0"
        \o <<0, 1, 2, 3, 0>>                           \* sB: five bytes

TiffBody(c) ==
    (CASE c.order = "II" -> INTEL_HEADER
       [] c.order = "MM" -> MOTOROLA_HEADER
       [] OTHER          -> <<77, 73, 0, 42>>)
        \o Enc(c.order, 8, 4)
        \o Enc(c.order, IfdCount(c), 2)
        \o Flatten([k \in 1..c.pre |-> OtherEntry(c)])
        \o (IF c.hasGps THEN PointerEntry(c) ELSE <<>>)
        \o <<0, 0, 0, 0>>
        \o Enc(c.order, Len(c.entries), 2)
        \o Flatten([k \in 1..Len(c.entries) |-> EntryBytes(c, c.entries[k])])
        \o <<0, 0, 0, 0>>
        \o DataArea(c)

\* bytes of the APP0 segment; app0len < 0: no APP0
App0Bytes(c) ==
    IF c.app0len < 0 THEN <<>>
    ELSE APP0 \o EncBE(c.app0len, 2) \o [k \in 1..Max(c.app0len - 2, 0) |-> 74]

\* the APP1 length field: the true length of the segment, or a wrong one
DeclaredLen(c) ==
    CASE c.declared = "exact" -> 8 + BodyLen(c)
      [] c.declared = "short" -> 8 + GpsEntryRel(c)
      [] c.declared = "odd"   -> 8 + GpsEntryRel(c) + 1
      [] c.declared = "over"  -> 8 + BodyLen(c) + 7

FullStream(c) ==
    (IF c.soi THEN SOI ELSE <<255, 217>>)
        \o App0Bytes(c)
        \o (IF c.app1 THEN APP1 ELSE <<255, 219>>)
        \o EncBE(DeclaredLen(c), 2)
        \o EXIF_LITERAL
        \o TiffBody(c)

Build(c) ==
    IF c.keep < 0 THEN FullStream(c)
    ELSE SubSeq(FullStream(c), 1, Min(c.keep, Len(FullStream(c))))

Entry(tag, datatype, count, at, bytes) ==
    [tag |-> tag, datatype |-> datatype, count |-> count, at |-> at, bytes |-> bytes]

\* entries of a datatype DATATYPE_LENGTHS gives a unit length > 0
SupportedEntries ==
    { Entry(1,  2, 2, "inline", <<78, 0, 0, 0>>),   \* latitude_ref "N"
      Entry(3,  2, 1, "inline", <<0, 0, 0, 0>>),    \* longitude_ref ""
      Entry(5,  1, 1, "inline", <<1, 0, 0, 0>>),    \* altitude_ref 1
      Entry(5,  1, 2, "inline", <<1, 2, 0, 0>>),    \* two bytes inline
      Entry(16, 2, 4, "inline", <<77, 97, 103, 0>>),\* direction_ref "Mag"
      Entry(6,  5, 1, "s0",     <<>>),              \* altitude
      Entry(2,  5, 2, "s0",     <<>>),              \* latitude, two rationals
      Entry(4,  5, 1, "s1",     <<>>),              \* longitude
      Entry(7,  5, 1, "back",   <<>>),              \* offset behind the directory
      Entry(16, 2, 5, "sA",     <<>>),              \* direction_ref, 5 characters
      Entry(17, 1, 5, "sB",     <<>>),              \* direction, 5 bytes
      Entry(9,  5, 1, "s0",     <<>>) }             \* tag not in GPS_TAGS

\* recognized tags with another datatype code
UnsupportedEntries ==
    { Entry(3,  3, 1, "inline", <<0, 7, 0, 0>>),    \* Short
      Entry(1,  0, 1, "inline", <<0, 0, 0, 0>>) }   \* "no such type"

EntrySet == SupportedEntries \cup UnsupportedEntries

Directories == UNION {[1..n -> SupportedEntries] : n \in 0..MaxEntries}

UnsupportedDirectories ==
    { d \in UNION {[1..n -> EntrySet] : n \in 1..MaxEntries} :
        \E k \in 1..Len(d) : d[k] \in UnsupportedEntries }

Config(soi, app0len, app1, declared, order, tagEnc, pre, hasGps, entries, keep) ==
    [soi |-> soi, app0len |-> app0len, app1 |-> app1, declared |-> declared,
     order |-> order, tagEnc |-> tagEnc, pre |-> pre, hasGps |-> hasGps,
     entries |-> entries, keep |-> keep]

SampleDirectory ==
    <<Entry(1, 2, 2, "inline", <<78, 0, 0, 0>>), Entry(6, 5, 1, "s0", <<>>)>>

\* well-formed container, every directory
BodyConfigs ==
    { Config(TRUE, a, TRUE, "exact", o, "literal", 0, TRUE, d, -1) :
        a \in {-1, 4}, o \in {"II", "MM"}, d \in Directories }

\* every container shape around one directory
HeaderConfigs ==
    { Config(x[1], x[2], x[3], x[4], x[5], x[6], x[7], x[8], SampleDirectory, -1) :
        x \in BOOLEAN \X {-1, 0, 1, 2, 4} \X BOOLEAN
              \X {"exact", "short", "odd", "over"}
              \X {"II", "MM", "bad"} \X {"literal", "native"} \X (0..MaxPre)
              \X BOOLEAN }

\* a well-formed stream cut after `keep` bytes; a cut between the GPS tag id
\* and its directory is left out (the pointer then decodes to 0 and the walk
\* takes the TIFF header for a directory of 0x4949 or 0x4D4D entries)
CutConfigs ==
    UNION { LET c == Config(TRUE, a, TRUE, "exact", o, "literal", 0, TRUE,
                            SampleDirectory, -1)
                head == Len(FullStream(c)) - BodyLen(c)
            IN  { [c EXCEPT !.keep = k] :
                    k \in (0..(head + GpsEntryRel(c)))
                          \cup ((head + GpsDirRel(c))..Len(FullStream(c))) }
          : a \in {-1, 4}, o \in {"II", "MM"} }

\* well-formed container, a directory with an unsupported datatype
DatatypeConfigs ==
    { Config(TRUE, -1, TRUE, "exact", o, "literal", 0, TRUE, d, -1) :
        o \in {"II", "MM"}, d \in UnsupportedDirectories }

Configs == BodyConfigs \cup DatatypeConfigs \cup HeaderConfigs \cup CutConfigs

----------------------------------------------------------------------------
(* read_gps, lines 53-213 *)

EmptyRecord == [k \in {} |-> 0]

\* dict[key] = value
Put(dict, key, value) ==
    [k \in DOMAIN dict \cup {key} |-> IF k = key THEN value ELSE dict[k]]

\* the keys in descending order
RECURSIVE SortedDescending(_)
SortedDescending(S) ==
    IF S = {} THEN <<>>
    ELSE LET m == CHOOSE x \in S : \A y \in S : x >= y
         IN  <<m>> \o SortedDescending(S \ {m})

\* sorted(keys)
RECURSIVE Sorted(_)
Sorted(S) ==
    IF S = {} THEN <<>>
    ELSE LET m == CHOOSE x \in S : \A y \in S : x <= y
         IN  <<m>> \o Sorted(S \ {m})

\* what a caller of read_gps observes
Outcome ==
    [returned |-> pc = "done",
     raised   |-> err,
     record   |-> IF pc = "done" THEN gps ELSE EmptyRecord]

NoOutcome == [returned |-> FALSE, raised |-> "none", record |-> EmptyRecord]

\* no decoder has been called on its own
NoDecode == [motorola |-> -1, intel |-> -1, reversed |-> -1]

Terminated == pc \in {"done", "raised"}

Start(s) ==
    /\ stream = s
    /\ pos = 0
    /\ pc = "soi"
    /\ segment = <<>>
    /\ end_of_app1 = 0
    /\ exif_start = 0
    /\ endian = "none"
    /\ found_gps = FALSE
    /\ num_fields = 0
    /\ i = 0
    /\ datatype_length = 0
    /\ gps = EmptyRecord
    /\ ifd_offsets = EmptyRecord
    /\ sorted_offsets = <<>>
    /\ oi = 0
    /\ err = "none"
    /\ seeks = <<>>
    /\ requested = {}
    /\ resolved = <<>>

Init ==
    /\ \E c \in Configs : Start(Build(c))
    /\ run = 1
    /\ prevOutcome = NoOutcome
    /\ decoded = NoDecode

\* raise: the exception leaves read_gps with the cursor at p
Raise(e, p) ==
    /\ pc' = "raised"
    /\ err' = e
    /\ pos' = p

\* stream.seek(target) with the cursor at p
Seek(p, target, why) ==
    seeks' = Append(seeks, [from |-> p, to |-> target, why |-> why])

\* line 80-81
CheckSOI ==
    /\ pc = "soi"
    /\ LET data == Read(stream, pos, 2) IN
        /\ requested' = requested \cup {pos}
        /\ IF data # SOI
           THEN Raise(SOI_MISSING, pos + Len(data))
           ELSE /\ pc' = "segment"
                /\ pos' = pos + Len(data)
                /\ err' = err
    /\ UNCHANGED <<seeks, header, walk, harness>>

\* line 83
ReadSegment ==
    /\ pc = "segment"
    /\ segment' = Read(stream, pos, 2)
    /\ pos' = After(stream, pos, 2)
    /\ requested' = requested \cup {pos}
    /\ pc' = "app0"
    /\ UNCHANGED <<seeks, end_of_app1, exif_start, endian, walk, harness, err>>

\* LengthTarget with tell() taken after the two length bytes are read
LengthTargetAfterReads(tell, hi, lo) == (tell + 2) + (hi * 256 + lo)

\* tell() + (ord(read(1)) * 256 + ord(read(1))): tell() is evaluated first
LengthTarget(tell, hi, lo) == tell + (hi * 256 + lo)

\* lines 86-92
SkipAPP0 ==
    /\ pc = "app0"
    /\ segment = APP0
    /\ LET hi == Read(stream, pos, 1)
           p1 == pos + Len(hi)
           lo == Read(stream, p1, 1)
           p2 == p1 + Len(lo)
       IN  IF hi = <<>>
           THEN /\ Raise("TypeError", p1)
                /\ requested' = requested \cup {pos}
                /\ UNCHANGED <<seeks, segment>>
           ELSE IF lo = <<>>
           THEN /\ Raise("TypeError", p2)
                /\ requested' = requested \cup {pos, p1}
                /\ UNCHANGED <<seeks, segment>>
           ELSE LET target == LengthTarget(pos, hi[1], lo[1]) IN
                /\ Seek(p2, target, "app0")
                /\ segment' = Read(stream, target, 2)
                /\ pos' = After(stream, target, 2)
                /\ requested' = requested \cup {pos, p1, target}
                /\ pc' = "app1"
                /\ err' = err
    /\ UNCHANGED <<end_of_app1, exif_start, endian, walk, harness>>

\* lines 95-96
CheckAPP1 ==
    /\ \/ pc = "app0" /\ segment # APP0
       \/ pc = "app1"
    /\ IF segment # APP1
       THEN Raise(APP1_MISSING, pos)
       ELSE /\ pc' = "length"
            /\ UNCHANGED <<pos, err>>
    /\ UNCHANGED <<seeks, requested, header, walk, harness>>

\* lines 100-102
ReadApp1End ==
    /\ pc = "length"
    /\ LET hi == Read(stream, pos, 1)
           p1 == pos + Len(hi)
           lo == Read(stream, p1, 1)
           p2 == p1 + Len(lo)
       IN  IF hi = <<>>
           THEN /\ Raise("TypeError", p1)
                /\ requested' = requested \cup {pos}
                /\ UNCHANGED end_of_app1
           ELSE IF lo = <<>>
           THEN /\ Raise("TypeError", p2)
                /\ requested' = requested \cup {pos, p1}
                /\ UNCHANGED end_of_app1
           ELSE /\ end_of_app1' = LengthTarget(pos, hi[1], lo[1])
                /\ pos' = p2
                /\ requested' = requested \cup {pos, p1}
                /\ pc' = "exif"
                /\ err' = err
    /\ UNCHANGED <<seeks, segment, exif_start, endian, walk, harness>>

\* ByteOrder with the final else falling back to big-endian
ByteOrderDefaulting(endian_string) ==
    IF endian_string = INTEL_HEADER THEN "intel" ELSE "motorola"

\* lines 117-122: the decode function the 4-byte header selects
ByteOrder(endian_string) ==
    IF endian_string = INTEL_HEADER THEN "intel"
    ELSE IF endian_string = MOTOROLA_HEADER THEN "motorola"
    ELSE "none"

\* lines 105-122
ReadByteOrder ==
    /\ pc = "exif"
    /\ LET p1 == After(stream, pos, 6)
           endian_string == Read(stream, p1, 4)
           p2 == p1 + Len(endian_string)
       IN  /\ exif_start' = p1
           /\ requested' = requested \cup {pos, p1}
           /\ endian' = ByteOrder(endian_string)
           /\ IF ByteOrder(endian_string) = "none"
              THEN Raise(ENDIAN_UNKNOWN, p2)
              ELSE /\ pc' = "scan"
                   /\ pos' = p2
                   /\ err' = err
    /\ UNCHANGED <<seeks, segment, end_of_app1, walk, harness>>

\* line 127: the loop condition
Scanning == pos < end_of_app1 /\ ~found_gps

\* line 129
IsGpsTag(window) == window = GPS_TAG

\* lines 127-129, one iteration
FindGpsTag ==
    /\ pc = "scan"
    /\ Scanning
    /\ segment' = Read(stream, pos, 2)
    /\ pos' = After(stream, pos, 2)
    /\ requested' = requested \cup {pos}
    /\ found_gps' = IsGpsTag(Read(stream, pos, 2))
    /\ UNCHANGED <<seeks, end_of_app1, exif_start, endian, num_fields, i,
                   datatype_length, gps, ifd_offsets, sorted_offsets, oi,
                   resolved, harness, pc, err>>

\* AbsoluteOffset with the stored offset taken for a stream position
AbsoluteOffsetFromStart(origin, stored) == stored

\* lines 137 and 166-167: exif_start + self._val(stream.read(4))
AbsoluteOffset(origin, stored) == origin + stored

\* HasGpsInfo with the test of line 132 dropped
HasGpsInfoAlways == TRUE

\* line 132: if found_gps
HasGpsInfo == found_gps

\* lines 132-140
ReadGpsDirectory ==
    /\ pc = "scan"
    /\ ~Scanning
    /\ HasGpsInfo
    /\ LET p1 == After(stream, pos, 6)
           pointer == Read(stream, p1, 4)
           p2 == p1 + Len(pointer)
           target == AbsoluteOffset(exif_start, _val(endian, pointer))
       IN  /\ Seek(p2, target, "directory")
           /\ num_fields' = _val(endian, Read(stream, target, 2))
           /\ pos' = After(stream, target, 2)
           /\ requested' = requested \cup {pos, p1, target}
    /\ i' = 0
    /\ pc' = "walk"
    /\ UNCHANGED <<header, found_gps, datatype_length, gps, ifd_offsets,
                   sorted_offsets, oi, resolved, harness, err>>

\* the rest of an unrecognized entry taken for its whole 12 bytes
UnrecognizedRestWhole == 10 + 2

\* line 185: the bytes of an unrecognized entry after its tag id
UnrecognizedRest == 10

\* line 153
ValueLength(length, num_values) == length * num_values

\* IsDeferred with the four-byte value sent to the deferred pass
IsDeferredFromFour(value_length) == value_length >= 4

\* line 158
IsDeferred(value_length) == value_length > 4

\* lines 143-185, one iteration
ReadEntry ==
    /\ pc = "walk"
    /\ i < num_fields
    /\ LET tag_id == _val(endian, Read(stream, pos, 2))
           p1 == After(stream, pos, 2)
       IN
       IF tag_id \notin DOMAIN GPS_TAGS
       THEN \* line 185
            /\ pos' = After(stream, p1, UnrecognizedRest)
            /\ requested' = requested \cup {pos, p1}
            /\ i' = i + 1
            /\ UNCHANGED <<datatype_length, gps, ifd_offsets, resolved, pc, err>>
       ELSE
       LET tag == GPS_TAGS[tag_id]
           datatype == _val(endian, Read(stream, p1, 2))
           p2 == After(stream, p1, 2)
       IN
       IF datatype \notin DOMAIN DATATYPE_LENGTHS
       THEN \* line 151
            /\ Raise("KeyError", p2)
            /\ requested' = requested \cup {pos, p1}
            /\ UNCHANGED <<i, datatype_length, gps, ifd_offsets, resolved>>
       ELSE
       LET length == DATATYPE_LENGTHS[datatype]
           num_values == _val(endian, Read(stream, p2, 4))
           p3 == After(stream, p2, 4)
           value_length == ValueLength(length, num_values)
           field == Read(stream, p3, 4)
           p4 == p3 + Len(field)
       IN
       /\ datatype_length' = length
       /\ requested' = requested \cup {pos, p1, p2, p3}
       /\ IF IsDeferred(value_length)
          THEN \* lines 166-169
               /\ ifd_offsets' =
                    Put(ifd_offsets, AbsoluteOffset(exif_start, _val(endian, field)),
                        [tag |-> tag, num_values |-> num_values,
                         datatype |-> datatype, entry |-> i])
               /\ pos' = p4
               /\ i' = i + 1
               /\ UNCHANGED <<gps, resolved, pc, err>>
          ELSE \* lines 179-182
               LET r == _get_value(endian, <<Slice(field, 0, value_length)>>,
                                   num_values, datatype)
               IN
               /\ resolved' = Append(resolved,
                      [mode |-> "inline", entry |-> i, tag |-> tag,
                       num_values |-> num_values, datatype |-> datatype,
                       unit |-> length, offset |-> p3,
                       units |-> <<Slice(field, 0, value_length)>>,
                       raised |-> r.raised, value |-> r.value])
               /\ UNCHANGED ifd_offsets
               /\ IF r.raised # "none"
                  THEN /\ Raise(r.raised, p4)
                       /\ UNCHANGED <<i, gps>>
                  ELSE /\ gps' = Put(gps, tag, r.value)
                       /\ pos' = p4
                       /\ i' = i + 1
                       /\ UNCHANGED <<pc, err>>
    /\ UNCHANGED <<seeks, header, found_gps, num_fields, sorted_offsets, oi, harness>>

\* lines 189-193
SortOffsets ==
    /\ pc = "walk"
    /\ ~(i < num_fields)
    /\ DOMAIN ifd_offsets # {}
    /\ sorted_offsets' = Sorted(DOMAIN ifd_offsets)
    /\ oi' = 0
    /\ pc' = "deferred"
    /\ UNCHANGED <<io, header, found_gps, num_fields, i, datatype_length, gps,
                   ifd_offsets, resolved, harness, err>>

\* line 207: the length of each unit read for a deferred value is the local
\* datatype_length, last assigned at line 151 of the directory walk
UnitLength(length, datatype) == length

\* lines 195-209, one iteration
ResolveDeferred ==
    /\ pc = "deferred"
    /\ oi < Len(sorted_offsets)
    /\ LET offset == sorted_offsets[oi + 1]
           d == ifd_offsets[offset]
           unit == UnitLength(datatype_length, d.datatype)
           cursor(k) == IF offset >= Len(stream) THEN offset
                        ELSE Min(offset + (k - 1) * unit, Len(stream))
           data == [k \in 1..d.num_values |-> Read(stream, cursor(k), unit)]
           r == _get_value(endian, data, d.num_values, d.datatype)
       IN  /\ Seek(pos, offset, "deferred")
           /\ requested' = requested \cup {cursor(k) : k \in 1..d.num_values}
           /\ resolved' = Append(resolved,
                  [mode |-> "deferred", entry |-> d.entry, tag |-> d.tag,
                   num_values |-> d.num_values, datatype |-> d.datatype,
                   unit |-> unit, offset |-> offset, units |-> data,
                   raised |-> r.raised, value |-> r.value])
           /\ IF r.raised # "none"
              THEN /\ Raise(r.raised, cursor(d.num_values + 1))
                   /\ UNCHANGED <<oi, gps>>
              ELSE /\ gps' = Put(gps, d.tag, r.value)
                   /\ pos' = cursor(d.num_values + 1)
                   /\ oi' = oi + 1
                   /\ UNCHANGED <<pc, err>>
    /\ UNCHANGED <<header, found_gps, num_fields, i, datatype_length,
                   ifd_offsets, sorted_offsets, harness>>

\* line 213
Return ==
    /\ \/ pc = "scan" /\ ~Scanning /\ ~HasGpsInfo
       \/ pc = "walk" /\ ~(i < num_fields) /\ DOMAIN ifd_offsets = {}
       \/ pc = "deferred" /\ ~(oi < Len(sorted_offsets))
    /\ pc' = "done"
    /\ UNCHANGED <<io, header, walk, harness, err>>

Next ==
    \/ CheckSOI
    \/ ReadSegment
    \/ SkipAPP0
    \/ CheckAPP1
    \/ ReadApp1End
    \/ ReadByteOrder
    \/ FindGpsTag
    \/ ReadGpsDirectory
    \/ ReadEntry
    \/ SortOffsets
    \/ ResolveDeferred
    \/ Return

Spec == Init /\ [][Next]_vars

\* a stream with a complete APP0 segment after its first two bytes
App0Length(s) == s[5] * 256 + s[6]

WellFormedApp0(s) ==
    /\ Read(s, 2, 2) = APP0
    /\ Len(s) >= 6
    /\ App0Length(s) >= 2
    /\ 4 + App0Length(s) <= Len(s)

\* the same stream without its APP0 segment
Twin(s) == SubSeq(s, 1, 2) \o SubSeq(s, 4 + App0Length(s) + 1, Len(s))

\* a second reader is constructed on the twin stream and read_gps is called
Rerun ==
    /\ run = 1
    /\ Terminated
    /\ WellFormedApp0(stream)
    /\ prevOutcome' = Outcome
    /\ run' = 2
    /\ decoded' = decoded
    /\ stream' = Twin(stream)
    /\ pos' = 0
    /\ pc' = "soi"
    /\ segment' = <<>>
    /\ end_of_app1' = 0
    /\ exif_start' = 0
    /\ endian' = "none"
    /\ found_gps' = FALSE
    /\ num_fields' = 0
    /\ i' = 0
    /\ datatype_length' = 0
    /\ gps' = EmptyRecord
    /\ ifd_offsets' = EmptyRecord
    /\ sorted_offsets' = <<>>
    /\ oi' = 0
    /\ err' = "none"
    /\ seeks' = <<>>
    /\ requested' = {}
    /\ resolved' = <<>>

TwinNext == Next \/ Rerun

TwinSpec == Init /\ [][TwinNext]_vars

\* read_gps on the streams whose container is well formed
InitWellFormed ==
    /\ \E c \in BodyConfigs : Start(Build(c))
    /\ run = 1
    /\ prevOutcome = NoOutcome
    /\ decoded = NoDecode

WellFormedSpec == InitWellFormed /\ [][Next]_vars

\* the widest string read_gps hands to self._val: stream.read(4)
FIELD_WIDTH == 4

\* string[::-1]
Reverse(string) == [k \in 1..Len(string) |-> string[Len(string) + 1 - k]]

\* byte strings of 0..FIELD_WIDTH bytes.  A string of four bytes keeps its
\* first and its last byte below 128, so that both decoders stay below 2^31.
ByteValues == {0, 1, 2, 3, 4, 127, 128, 255}

ByteStrings ==
    { s \in UNION {[1..n -> ByteValues] : n \in 0..FIELD_WIDTH} :
        Len(s) = FIELD_WIDTH => s[1] < 128 /\ s[Len(s)] < 128 }

\* _motorola_val and _intel_val called on a byte string, outside read_gps
InitDecode ==
    /\ stream \in ByteStrings
    /\ pc = "decode"
    /\ pos = 0
    /\ seeks = <<>>
    /\ requested = {}
    /\ segment = <<>>
    /\ end_of_app1 = 0
    /\ exif_start = 0
    /\ endian = "none"
    /\ found_gps = FALSE
    /\ num_fields = 0
    /\ i = 0
    /\ datatype_length = 0
    /\ gps = EmptyRecord
    /\ ifd_offsets = EmptyRecord
    /\ sorted_offsets = <<>>
    /\ oi = 0
    /\ resolved = <<>>
    /\ err = "none"
    /\ run = 1
    /\ prevOutcome = NoOutcome
    /\ decoded = NoDecode

Decode ==
    /\ pc = "decode"
    /\ decoded' = [motorola |-> _motorola_val(stream),
                   intel    |-> _intel_val(stream),
                   reversed |-> _motorola_val(Reverse(stream))]
    /\ pc' = "decoded"
    /\ UNCHANGED <<io, header, walk, stream, run, prevOutcome, err>>

DecodeSpec == InitDecode /\ [][Decode]_vars

----------------------------------------------------------------------------
(* Properties *)

Range(seq) == {seq[k] : k \in 1..Len(seq)}

\* C1: forward-only.  Every read starts at the cursor, so the positions
\* requested during one read_gps call are non-decreasing exactly when no
\* seek (the APP0 skip, the jump to the GPS directory, a deferred-value
\* seek) targets a position behind the cursor it is issued at.
ForwardOnly == \A s \in Range(seeks) : s.to >= s.from

\* C2: in the deferred pass every entry is read as num_values units, each of
\* the unit length of that entry's own datatype.
DeferredUnitIsOwn ==
    \A r \in Range(resolved) :
        r.mode = "deferred" =>
            /\ Len(r.units) = r.num_values
            /\ r.unit = DATATYPE_LENGTHS[r.datatype]

UnsupportedDatatypeSkipped ==
    /\ err # "KeyError"
    /\ \A r \in Range(resolved) : r.datatype \in {BYTE_TAG, ASCII_TAG, RATIONAL_TAG}

\* C5: termination.  read_gps is deterministic, so a parse that has neither
\* returned nor raised terminates only if its next step changes the state.
Termination == Terminated \/ ENABLED <<Next>>_vars

\* C6: no seek to a position behind the cursor is issued for a deferred
\* entry; an offset behind the cursor ends the parse in an error instead.
InvalidOffsetOrdering ==
    \A s \in Range(seeks) : s.why = "deferred" => s.to >= s.from

\* C7: every recognized Ascii entry of count >= 1 whose count stored bytes are
\* in the stream, inline or deferred, decodes to the first count - 1 of them.
AsciiTermination ==
    \A r \in Range(resolved) :
        (r.datatype = ASCII_TAG /\ r.num_values >= 1
            /\ r.offset + r.num_values <= Len(stream)) =>
            /\ r.raised = "none"
            /\ r.value.shape = "text"
            /\ r.value.items[1].n =
                   SubSeq(stream, r.offset + 1, r.offset + r.num_values - 1)

\* C8: the three header failures.  What the stream holds decides the
\* outcome: not SOI in the first two bytes, not APP1 at the marker after the
\* optional APP0 segment, neither byte-order header after the Exif literal.
\* Each ends the parse where the offending read left the cursor, with its
\* own message, nothing stored, and no step of read_gps after it.
HeaderFailures ==
    LET soiOk       == Read(stream, 0, 2) = SOI
        hasApp0     == Read(stream, 2, 2) = APP0
        markerAt    == IF hasApp0 THEN 4 + App0Length(stream) ELSE 2
        markerRead  == soiOk /\ (hasApp0 => Len(stream) >= 6)
        marker      == Read(stream, markerAt, 2)
        lengthAt    == markerAt + 2
        origin      == After(stream, lengthAt + 2, 6)
        headerRead  == markerRead /\ marker = APP1 /\ Len(stream) >= lengthAt + 2
        skips       == IF hasApp0 THEN 1 ELSE 0
    IN  /\ Cardinality({SOI_MISSING, APP1_MISSING, ENDIAN_UNKNOWN}) = 3
        /\ ~soiOk =>
              /\ pc \in {"soi", "raised"}
              /\ pc = "raised" =>
                    /\ err = SOI_MISSING
                    /\ pos = After(stream, 0, 2)
                    /\ requested = {0}
                    /\ seeks = <<>>
        /\ (markerRead /\ marker # APP1) =>
              /\ pc \in {"soi", "segment", "app0", "app1", "raised"}
              /\ pc = "raised" =>
                    /\ err = APP1_MISSING
                    /\ pos = After(stream, markerAt, 2)
                    /\ requested \subseteq {0, 2, 4, 5, markerAt}
                    /\ Len(seeks) = skips
        /\ (headerRead /\ Read(stream, origin, 4) \notin {INTEL_HEADER, MOTOROLA_HEADER}) =>
              /\ pc \in {"soi", "segment", "app0", "app1", "length", "exif", "raised"}
              /\ pc = "raised" =>
                    /\ err = ENDIAN_UNKNOWN
                    /\ exif_start = origin
                    /\ pos = After(stream, origin, 4)
                    /\ Len(seeks) = skips
        /\ err \in {SOI_MISSING, APP1_MISSING, ENDIAN_UNKNOWN} =>
              /\ pc = "raised"
              /\ ~Outcome.returned
              /\ DOMAIN gps = {}
              /\ ~ENABLED Next

\* C8 witness: a stream with SOI, a skipped APP0 and APP1 whose byte-order
\* header matches neither marker has ended in the third failure.
HeaderFailuresWitness ==
    /\ pc = "raised"
    /\ err = ENDIAN_UNKNOWN
    /\ Len(seeks) = 1
    /\ Len(stream) >= exif_start + 4

\* C9: when the scan has reached end_of_app1 without finding the GPS tag,
\* read_gps returns the empty record: it raises nothing, issues no seek
\* after the APP0 skip and reads no directory entry.
NoGpsDirectory ==
    /\ ~found_gps =>
          /\ pc \notin {"walk", "deferred"}
          /\ \A s \in Range(seeks) : s.why = "app0"
          /\ resolved = <<>>
          /\ DOMAIN ifd_offsets = {}
          /\ DOMAIN gps = {}
          /\ i = 0
    /\ (pc = "scan" /\ pos >= end_of_app1 /\ ~found_gps) =>
          /\ ENABLED Return
          /\ ~ENABLED ReadGpsDirectory
          /\ ~ENABLED FindGpsTag
    /\ (pc = "done" /\ ~found_gps) =>
          /\ pos >= end_of_app1
          /\ err = "none"
          /\ Outcome = [returned |-> TRUE, raised |-> "none", record |-> EmptyRecord]

\* C9 witness: the scan has read windows up to end_of_app1, inside the
\* stream, found no GPS tag, and read_gps has returned.
NoGpsDirectoryWitness ==
    /\ pc = "done"
    /\ ~found_gps
    /\ exif_start + 4 < end_of_app1
    /\ end_of_app1 <= Len(stream)
    /\ pos >= end_of_app1

\* C10: a stream with a well-formed APP0 segment and the same stream without
\* it give the same outcome, and the APP0 skip lands on the position of the
\* APP0 length field plus the declared length, where the next marker is.
App0Invariance ==
    /\ (run = 2 /\ Terminated) => Outcome = prevOutcome
    /\ (run = 1 /\ WellFormedApp0(stream)) =>
          /\ \A s \in Range(seeks) :
                s.why = "app0" => s.to = 4 + App0Length(stream)
          /\ pc = "app1" =>
                /\ segment = Read(stream, 4 + App0Length(stream), 2)
                /\ segment = Read(Twin(stream), 2, 2)
                /\ pos = After(stream, 4 + App0Length(stream), 2)

\* C10 witness: the parse of the twin stream has returned a record that
\* holds an inline and a deferred value.
App0InvarianceWitness ==
    /\ run = 2
    /\ pc = "done"
    /\ \E r \in Range(resolved) : r.mode = "inline" /\ r.raised = "none"
    /\ \E r \in Range(resolved) : r.mode = "deferred" /\ r.raised = "none"

\* 256^n
RECURSIVE Pow256(_)
Pow256(n) == IF n = 0 THEN 1 ELSE 256 * Pow256(n - 1)

\* C11: byte-order decode.  For every byte string s of 0..4 bytes the
\* little-endian decode of s equals the big-endian decode of s reversed; the
\* big-endian decode weighs the first byte most, the little-endian decode
\* the first byte least; 01 02 03 04 decodes to 0x01020304 big-endian and to
\* 0x04030201 little-endian; the empty string decodes to 0 and a string of
\* n > 0 bytes to a value in 0 .. 256^n - 1 (v \div 256^(n-1) <= 255).
ByteOrderDecode ==
    pc = "decoded" =>
        LET n == Len(stream) IN
        /\ decoded.intel = decoded.reversed
        /\ decoded.motorola = _intel_val(Reverse(stream))
        /\ n = 1 => decoded.motorola = stream[1] /\ decoded.intel = stream[1]
        /\ n = 2 => /\ decoded.motorola = stream[1] * 256 + stream[2]
                    /\ decoded.intel = stream[2] * 256 + stream[1]
        /\ stream = <<1, 2, 3, 4>> =>
                /\ decoded.motorola = 16909060
                /\ decoded.intel = 67305985
        /\ n = 0 => decoded.motorola = 0 /\ decoded.intel = 0
        /\ n > 0 => /\ decoded.motorola >= 0
                    /\ decoded.motorola \div Pow256(n - 1) <= 255
                    /\ decoded.intel >= 0
                    /\ decoded.intel \div Pow256(n - 1) <= 255

ByteOrderDecodeWitness ==
    /\ pc = "decoded"
    /\ stream = <<1, 2, 3, 4>>
    /\ decoded.motorola = 16909060
    /\ decoded.intel = 67305985

\* the directory entry under the cursor, as lines 144-167 read it
EntryTagId    == _val(endian, Read(stream, pos, 2))
EntryDatatype == _val(endian, Read(stream, After(stream, pos, 2), 2))
EntryCount    == _val(endian, Read(stream, After(stream, After(stream, pos, 2), 2), 4))
EntryField    ==
    _val(endian, Read(stream,
        After(stream, After(stream, After(stream, pos, 2), 2), 4), 4))

SupportedDatatypes == {BYTE_TAG, ASCII_TAG, RATIONAL_TAG}

\* the walk is about to read a recognized entry of a supported datatype
AtSupportedEntry ==
    /\ pc = "walk"
    /\ i < num_fields
    /\ EntryTagId \in DOMAIN GPS_TAGS
    /\ EntryDatatype \in SupportedDatatypes

\* unit_length(datatype) x count of the entry under the cursor
EntrySize == DATATYPE_LENGTHS[EntryDatatype] * EntryCount

\* the step decodes the entry during the walk and records no descriptor
InlineStep ==
    /\ ifd_offsets' = ifd_offsets
    /\ Len(resolved') = Len(resolved) + 1
    /\ resolved'[Len(resolved')].mode = "inline"
    /\ resolved'[Len(resolved')].entry = i
    /\ resolved'[Len(resolved')].tag = GPS_TAGS[EntryTagId]

\* the decoded value is in the record when the step is over, and the walk
\* goes on to the next entry
InlineStored ==
    /\ resolved'[Len(resolved')].raised = "none"
    /\ gps' = Put(gps, GPS_TAGS[EntryTagId], resolved'[Len(resolved')].value)
    /\ pc' = "walk"
    /\ i' = i + 1

\* the decode raised: nothing is stored and read_gps is left
InlineRaised ==
    /\ resolved'[Len(resolved')].raised = "IndexError"
    /\ EntryDatatype = BYTE_TAG
    /\ EntryCount > 1
    /\ gps' = gps
    /\ pc' = "raised"

\* the step records one descriptor, for this entry, and stores nothing
DeferredStep ==
    LET key == exif_start + EntryField IN
    /\ resolved' = resolved
    /\ gps' = gps
    /\ DOMAIN ifd_offsets' = DOMAIN ifd_offsets \cup {key}
    /\ ifd_offsets'[key] = [tag |-> GPS_TAGS[EntryTagId], num_values |-> EntryCount,
                            datatype |-> EntryDatatype, entry |-> i]
    /\ \A k \in DOMAIN ifd_offsets \ {key} : ifd_offsets'[k] = ifd_offsets[k]
    /\ pc' = "walk"
    /\ i' = i + 1

DeferredSeeks == SelectSeq(seeks, LAMBDA s : s.why = "deferred")

\* the deferred pass has read a value
DeferredRead ==
    \/ DeferredSeeks # <<>>
    \/ \E r \in Range(resolved) : r.mode = "deferred"

\* C13: two-phase ordering.  A deferred value is read only after the walk
\* has gone through all num_fields entries: while the walk is on nothing of
\* the deferred pass has happened, and in the log of decoded values every
\* value of the walk stands before every deferred one.  The targets of the
\* deferred seeks are strictly ascending, whatever the order of the entries
\* in the directory.
TwoPhaseOrdering ==
    /\ pc = "walk" => ~DeferredRead
    /\ DeferredRead => i = num_fields /\ pc \in {"deferred", "done", "raised"}
    /\ \A j, k \in 1..Len(resolved) :
        resolved[j].mode = "deferred" /\ resolved[k].mode = "inline" => k < j
    /\ \A j, k \in 1..Len(DeferredSeeks) :
        j < k => DeferredSeeks[j].to < DeferredSeeks[k].to
    /\ \A j \in 1..Len(DeferredSeeks) : DeferredSeeks[j].to = sorted_offsets[j]

\* two deferred values read in ascending offset order, the one read first
\* described by the later directory entry
TwoPhaseOrderingWitness ==
    /\ pc = "done"
    /\ Len(DeferredSeeks) = 2
    /\ DeferredSeeks[1].to < DeferredSeeks[2].to
    /\ ifd_offsets[DeferredSeeks[1].to].entry > ifd_offsets[DeferredSeeks[2].to].entry

\* the target of the jump to the GPS directory
DirectoryStart == (SelectSeq(seeks, LAMBDA s : s.why = "directory"))[1].to

\* the directory has been entered
InDirectory == \E s \in Range(seeks) : s.why = "directory"

\* the stream holds the count and all num_fields entries of the directory
DirectoryInStream == DirectoryStart + 2 + 12 * num_fields <= Len(stream)

\* entry k (from 0) of the directory, as stored in the stream
StoredTagId(k)    == _val(endian, Read(stream, DirectoryStart + 2 + 12 * k, 2))
StoredDatatype(k) == _val(endian, Read(stream, DirectoryStart + 2 + 12 * k + 2, 2))

\* every recognized entry of the directory carries a supported datatype
SupportedDirectory ==
    \A k \in 0..(num_fields - 1) :
        StoredTagId(k) \in DOMAIN GPS_TAGS => StoredDatatype(k) \in SupportedDatatypes

\* C14: directory walk stride.  For a directory of num_fields entries, all
\* in the stream, whose recognized entries carry supported datatypes: with
\* k entries walked the cursor is at directory start + 2 + 12 * k, for
\* unrecognized, inline and deferred entries alike; the walk ends at
\* directory start + 2 + 12 * num_fields, where the first deferred seek is
\* issued; an entry whose inline decode raises has had its 12 bytes read.
WalkStride ==
    InDirectory /\ DirectoryInStream /\ SupportedDirectory =>
        /\ pc = "walk" => pos = DirectoryStart + 2 + 12 * i /\ i <= num_fields
        /\ pc = "deferred" => i = num_fields
        /\ DeferredSeeks # <<>> =>
                DeferredSeeks[1].from = DirectoryStart + 2 + 12 * num_fields
        /\ pc = "done" /\ ~DeferredRead => pos = DirectoryStart + 2 + 12 * num_fields
        /\ pc = "raised" /\ ~DeferredRead => pos = DirectoryStart + 2 + 12 * (i + 1)

\* a directory of an unrecognized entry followed by a deferred one, walked
\* to its end: the cursor is 2 + 12 * 2 bytes behind the directory start
WalkStrideWitness ==
    /\ InDirectory /\ DirectoryInStream /\ SupportedDirectory
    /\ pc = "walk"
    /\ i = 2
    /\ num_fields = 2
    /\ pos = DirectoryStart + 26
    /\ StoredTagId(0) \notin DOMAIN GPS_TAGS
    /\ DOMAIN ifd_offsets # {}

\* the position of the APP1 marker: behind SOI, or where the APP0 skip landed
App1MarkerAt ==
    LET skips == SelectSeq(seeks, LAMBDA s : s.why = "app0")
    IN  IF skips = <<>> THEN 2 ELSE skips[1].to

\* exif_start has been assigned (line 110)
OriginCaptured == pc \notin {"soi", "segment", "app0", "app1", "length", "exif"}

\* the origin, the directory jump and the deferred seeks in one state
OffsetBaseState ==
    /\ OriginCaptured /\ endian # "none" =>
        \* marker, 2 length bytes, 6 bytes of EXIF literal, then the origin
        /\ exif_start = App1MarkerAt + 2 + 2 + 6
        /\ Read(stream, App1MarkerAt, 2) = APP1
        /\ Read(stream, exif_start, 4) \in {INTEL_HEADER, MOTOROLA_HEADER}
    /\ \A k \in 1..Len(seeks) :
        /\ seeks[k].why # "app0" => OriginCaptured
        /\ seeks[k].why = "directory" =>
            \* the window that matched, 6 bytes passed over, the 4-byte pointer
            /\ Read(stream, seeks[k].from - 12, 2) = GPS_TAG
            /\ seeks[k].to =
                 exif_start + _val(endian, Read(stream, seeks[k].from - 4, 4))
        /\ seeks[k].why = "deferred" =>
            \* the last 4 bytes of the directory entry the descriptor is of
            seeks[k].to =
                exif_start + _val(endian,
                    Read(stream,
                         DirectoryStart + 2 + 12 * ifd_offsets[seeks[k].to].entry + 8,
                         4))

\* C15: offset base.  The origin is the position behind the 6-byte EXIF
\* literal, where the 4-byte byte-order header starts; once assigned it is
\* never assigned again; the target of the jump to the GPS directory and of
\* every deferred seek is the origin plus an offset stored in the stream
\* (the pointer of the GPS entry, the last field of the directory entry),
\* decoded in the byte order the header selected.
OffsetBase ==
    /\ []OffsetBaseState
    /\ [][OriginCaptured => exif_start' = exif_start]_vars

\* a parse behind an APP0 segment, little-endian, that jumped to the GPS
\* directory and sought a deferred value
OffsetBaseWitness ==
    /\ pc = "done"
    /\ endian = "intel"
    /\ App1MarkerAt > 2
    /\ InDirectory
    /\ DeferredSeeks # <<>>
    /\ DeferredSeeks[1].to > exif_start

\* the field names of the recognized tag ids among the directory's entries
RecognizedFields ==
    { GPS_TAGS[StoredTagId(k)] :
        k \in {j \in 0..(num_fields - 1) : StoredTagId(j) \in DOMAIN GPS_TAGS} }

\* C16: record completeness.  When read_gps returns a record for a GPS
\* directory, all in the stream, whose recognized entries carry supported
\* datatypes, the keys of the record are the field names of the recognized
\* tag ids among the num_fields entries, whatever offsets the deferred
\* entries store.
RecordComplete ==
    pc = "done" /\ InDirectory /\ DirectoryInStream /\ SupportedDirectory =>
        DOMAIN gps = RecognizedFields

\* the positions the scan reads its windows at, up to the block end
ScanWindows ==
    { q \in (exif_start + 4)..(Len(stream) - 2) :
        (q - (exif_start + 4)) % 2 = 0 /\ q < end_of_app1 }

\* a scan window holds the tag id 0x8825 in the byte order of the stream
PointerStoredNative ==
    \E q \in ScanWindows : _val(endian, Read(stream, q, 2)) = GPS_POINTER_ID

\* the scan of lines 127-129 is over
ScanOver == pc \in {"walk", "deferred", "done", "raised"} /\ endian # "none"

\* C17: byte-order independence of the GPS-pointer detection.  In either
\* byte order, a stream that stores the tag id 0x8825 as a 2-byte integer of
\* its own byte order, on a scan-window boundary before the block end, has
\* the tag found by the scan.
GpsPointerFound == ScanOver /\ PointerStoredNative => found_gps

\* C18: scan bound.  While the scan for the GPS pointer tag is on, and has
\* read a window, the cursor is not behind the recorded block end: no byte
\* at a position >= end_of_app1 has been consumed, whatever the declared
\* APP1 length.
ScanBound == pc = "scan" /\ pos > exif_start + 4 => pos <= end_of_app1

====
